---- MODULE Spec2Model ----
(***************************************************************************)
(* State-machine model of the Plover "repeat" extension.                   *)
(*                                                                         *)
(*   src/plover_repeat/plover_repeat.py  PloverRepeat with the memory      *)
(*                                       commands and the undo command     *)
(*   src/plover_repeat/__init__.py       PloverRepeat with the mark and    *)
(*                                       repeat-to-mark commands (the      *)
(*                                       definitions ending in _mark)      *)
(*                                                                         *)
(* The host (Plover's engine) is the environment: it delivers strokes to   *)
(* on_stroked, and a stroke injected through _machine_stroke_callback is   *)
(* looped back synchronously into on_stroked before the callback returns.  *)
(* One call of on_stroked is a sequence of steps separated by the host     *)
(* calls it makes; `stack` holds the positions of the calls in progress.   *)
(***************************************************************************)
EXTENDS Integers, Sequences, FiniteSets, TLC

\* ------------------------------------------------------------------ bounds
\* The deque's maxlen, scaled down from 100 so that eviction is reached.
MaxHistoryBound == 2
\* Longest memory file considered (the file itself is unbounded).
MaxMemory == 2

\* --------------------------------------------------------------- constants
MAX_HISTORY == MaxHistoryBound

REPEAT_STROKES ==
    [s \in {"RA*PT", "RO*PT", "RAO*PT", "R*EPT", "RA*EPT", "RO*EPT", "RAO*EPT",
            "R*UPT", "RA*UPT", "RO*UPT", "RAO*UPT", "R*EUPT", "RA*EUPT",
            "RO*EUPT", "RAO*EUPT"} |->
        CASE s = "RA*PT" -> 1 [] s = "RO*PT" -> 2 [] s = "RAO*PT" -> 3
          [] s = "R*EPT" -> 4 [] s = "RA*EPT" -> 5 [] s = "RO*EPT" -> 6
          [] s = "RAO*EPT" -> 7 [] s = "R*UPT" -> 8 [] s = "RA*UPT" -> 9
          [] s = "RO*UPT" -> 10 [] s = "RAO*UPT" -> 11 [] s = "R*EUPT" -> 12
          [] s = "RA*EUPT" -> 13 [] s = "RO*EUPT" -> 14 [] s = "RAO*EUPT" -> 15]

MEMORY_TOGGLE_STROKE == "PO*FP"
MEMORY_PASTE_STROKE == "SKWR*PL"
MEMORY_RESET_STROKE == "R*ET"
UNDO_STROKE == "*"

\* Strokes that no command table reserves: what a user writes as text.
TextStrokes == {"KAT", "TKOG"}

\* The repeat strokes the host delivers: every count the history can satisfy,
\* the first it cannot, and the largest of the table.
RepeatInputs ==
    {s \in DOMAIN REPEAT_STROKES :
        REPEAT_STROKES[s] <= MAX_HISTORY + 1 \/ REPEAT_STROKES[s] = 15}

\* The strokes the host delivers to plover_repeat.py's on_stroked.
Strokes ==
    TextStrokes \cup RepeatInputs
        \cup {MEMORY_TOGGLE_STROKE, MEMORY_PASTE_STROKE, MEMORY_RESET_STROKE,
              UNDO_STROKE}

None == "None"

\* Python's None in mark_position, as an integer below every history length
\* so that the two compare.
NoMark == -1

\* ------------------------------------------------------------------- state
VARIABLES
    phase,                \* "new" (constructed), "running" (hook connected), "stopped"
    stroke_history,       \* deque(maxlen=MAX_HISTORY), oldest first
    is_recording_memory,
    _processing,          \* the reentrancy guard
    mark_position,        \* __init__.py only: NoMark or a history length
    history_file,         \* lines of repeat_strokes.txt
    memory_file,          \* lines of repeat_memory.txt
    stack,                \* on_stroked calls waiting on a host call, innermost first
    \* what the environment observes of the operation in progress or last finished
    last,                 \* the stroke of the outermost on_stroked call, or None
    calls,                \* the calls of _machine_stroke_callback made during it, in order
    h0,                   \* stroke_history when that call began
    m0,                   \* memory_file when that call began
    r0,                   \* is_recording_memory when that call began
    w0,                   \* history_write_failed when that call began, for a
                          \* stroke that on_stroked records or undoes
    mirrored,             \* the strokes handled while recording since recording began
                          \* on an empty memory file; None when no such cycle is open
    since_mark,           \* __init__.py only: the strokes appended since the mark was
                          \* set; None without a mark or once an entry was evicted
    history_write_failed, \* the latest write of history_file failed
    memory_io_failed      \* a read or write of memory_file failed during the
                          \* outermost on_stroked call in progress or last finished

prog == <<phase, stroke_history, is_recording_memory, _processing, mark_position,
          history_file, memory_file, stack>>
obs == <<last, calls, h0, m0, r0, w0>>
ghosts == <<mirrored, since_mark>>
faults == <<history_write_failed, memory_io_failed>>
vars == <<prog, obs, ghosts, faults>>

\* ----------------------------------------------------------------- helpers
\* Sequences over S of length at most n.
SeqsUpTo(S, n) == UNION {[1..k -> S] : k \in 0..n}

\* list(d)[-n:] for 1 <= n <= len(d)
LastN(seq, n) == SubSeq(seq, Len(seq) - n + 1, Len(seq))

\* Mutant of DequeAppend: a plain list, nothing is ever evicted.
DequeAppend_NoEviction(d, x, cap) == Append(d, x)

\* deque.append on a deque of maxlen cap: the oldest entry is evicted when full.
DequeAppend(d, x, cap) ==
    IF Len(d) >= cap THEN Append(Tail(d), x) ELSE Append(d, x)

\* deque.pop(): drops the newest entry.
DequePop(d) == SubSeq(d, 1, Len(d) - 1)

RECURSIVE DequeExtend(_, _, _)
DequeExtend(d, xs, cap) ==
    IF xs = <<>> THEN d ELSE DequeExtend(DequeAppend(d, Head(xs), cap), Tail(xs), cap)

\* ------------------------------------------------------------ file access
\* What readlines() + strip() + `if stroke` keep of a file: its non-blank lines.
FileLines(file) == SelectSeq(file, LAMBDA line : line # "")

\* Mutant of save_history: the file is opened for appending and only the
\* newest entry is written.
save_history_AppendNewest(h) ==
    \/ /\ history_file' = IF h = <<>>
                          THEN history_file
                          ELSE Append(history_file, h[Len(h)])
       /\ history_write_failed' = FALSE
    \/ /\ history_file' \in {history_file, <<>>}
       /\ history_write_failed' = TRUE

\* save_history: open(history_file, 'w') and one line per entry.  A write that
\* fails is caught and logged; it leaves the file as it was (open raised) or
\* truncated by open and empty (the buffered lines were never flushed).
save_history(h) ==
    \/ /\ history_file' = h
       /\ history_write_failed' = FALSE
    \/ /\ history_file' \in {history_file, <<>>}
       /\ history_write_failed' = TRUE

\* Mutant of save_history_live: the live save is left out.
save_history_live_Skipped(h) == UNCHANGED <<history_file, history_write_failed>>

save_history_live(h) == save_history(h)

\* No access to memory_file raises in this step: the flag of the outermost call
\* in progress is kept, and a new outermost call starts with it clear.
NoMemoryFault == memory_io_failed' = (stack # <<>> /\ memory_io_failed)

\* Mutant of save_to_memory: the file is opened with 'w' instead of 'a'.
save_to_memory_Overwrite(stroke_str) ==
    \/ /\ memory_file' = <<stroke_str>>
       /\ NoMemoryFault
    \/ /\ memory_file' = memory_file
       /\ memory_io_failed' = TRUE

\* save_to_memory: open(memory_file, 'a') and one line; a failure is caught.
save_to_memory(stroke_str) ==
    \/ /\ memory_file' = Append(memory_file, stroke_str)
       /\ NoMemoryFault
    \/ /\ memory_file' = memory_file
       /\ memory_io_failed' = TRUE

\* clear_memory: open(memory_file, 'w') and write ''; a failure is caught.
clear_memory ==
    \/ /\ memory_file' = <<>>
       /\ NoMemoryFault
    \/ /\ memory_file' = memory_file
       /\ memory_io_failed' = TRUE

\* ------------------------------------------------------ calls in progress
\* A call of on_stroked that is inside send_undo (stage "undo") or
\* replay_strokes (stage "replay"): `batch` are the strokes still to inject,
\* pc is "inject" before _machine_stroke_callback is called for Head(batch)
\* and "hook" while the host delivers that stroke to the 'stroked' hook.
Frame(cmd, stage, batch) ==
    [cmd |-> cmd, stage |-> stage, batch |-> batch, pc |-> "inject"]

\* replay_strokes(strokes): set the guard and start the loop.
replay_strokes(cmd, strokes, ret) ==
    /\ _processing' = TRUE
    /\ stack' = <<Frame(cmd, "replay", strokes)>> \o ret

\* Mutant of send_undo: the guard is not set around the injection.
send_undo_NoGuard(cmd, ret) ==
    /\ UNCHANGED _processing
    /\ stack' = <<Frame(cmd, "undo", <<UNDO_STROKE>>)>> \o ret

\* Mutant of send_undo: the engine is not called.
send_undo_NoCall(cmd, ret) ==
    /\ _processing' = TRUE
    /\ stack' = <<Frame(cmd, "undo", <<>>)>> \o ret

\* send_undo(): set the guard and inject the undo stroke.
send_undo(cmd, ret) ==
    /\ _processing' = TRUE
    /\ stack' = <<Frame(cmd, "undo", <<UNDO_STROKE>>)>> \o ret

\* Mutant of repeat_last_n: the slice is taken from the wrong end.
repeat_last_n_FirstN(cmd, n, ret) ==
    IF n > Len(stroke_history)
    THEN /\ _processing' = FALSE
         /\ stack' = ret
    ELSE replay_strokes(cmd, SubSeq(stroke_history, 1, n), ret)

\* Mutant of repeat_last_n: the length check is missing, and list(d)[-n:] is
\* the whole list when n exceeds its length.
repeat_last_n_Unchecked(cmd, n, ret) ==
    replay_strokes(cmd,
                   IF n > Len(stroke_history)
                   THEN stroke_history
                   ELSE LastN(stroke_history, n),
                   ret)

\* repeat_last_n(n), entered when send_undo has released the guard.
repeat_last_n(cmd, n, ret) ==
    IF n > Len(stroke_history)
    THEN /\ _processing' = FALSE
         /\ stack' = ret
    ELSE replay_strokes(cmd, LastN(stroke_history, n), ret)

\* Mutant of undo_branch: while recording, the undone stroke is taken out of
\* the memory file as well.
undo_branch_PopsMemory(ret) ==
    /\ stack' = ret
    /\ IF Len(stroke_history) > 0
       THEN /\ stroke_history' = DequePop(stroke_history)
            /\ save_history_live(DequePop(stroke_history))
       ELSE UNCHANGED <<stroke_history, history_file, history_write_failed>>
    /\ NoMemoryFault
    /\ memory_file' = IF is_recording_memory /\ memory_file # <<>>
                      THEN DequePop(memory_file)
                      ELSE memory_file
    /\ UNCHANGED <<is_recording_memory, _processing>>

\* Mutant of undo_branch: the double-pop variant, two entries go.
undo_branch_DoublePop(ret) ==
    /\ stack' = ret
    /\ IF Len(stroke_history) > 0
       THEN /\ stroke_history' = DequePop(DequePop(stroke_history))
            /\ save_history_live(DequePop(DequePop(stroke_history)))
       ELSE UNCHANGED <<stroke_history, history_file, history_write_failed>>
    /\ NoMemoryFault
    /\ UNCHANGED <<is_recording_memory, _processing, memory_file>>

\* on_stroked, the undo stroke: pop the newest entry and save.
undo_branch(ret) ==
    /\ stack' = ret
    /\ IF Len(stroke_history) > 0
       THEN /\ stroke_history' = DequePop(stroke_history)
            /\ save_history_live(DequePop(stroke_history))
       ELSE UNCHANGED <<stroke_history, history_file, history_write_failed>>
    /\ NoMemoryFault
    /\ UNCHANGED <<is_recording_memory, _processing, memory_file>>

\* Mutant of record_branch: the stroke is mirrored whether or not recording
\* is on.
record_branch_AlwaysMirror(stroke_str, ret) ==
    /\ stack' = ret
    /\ save_to_memory(stroke_str)
    /\ stroke_history' = DequeAppend(stroke_history, stroke_str, MAX_HISTORY)
    /\ save_history_live(DequeAppend(stroke_history, stroke_str, MAX_HISTORY))
    /\ UNCHANGED <<is_recording_memory, _processing>>

\* on_stroked, any other stroke: mirror it while recording, append it, save.
record_branch(stroke_str, ret) ==
    /\ stack' = ret
    /\ IF is_recording_memory
       THEN save_to_memory(stroke_str)
       ELSE NoMemoryFault /\ UNCHANGED memory_file
    /\ stroke_history' = DequeAppend(stroke_history, stroke_str, MAX_HISTORY)
    /\ save_history_live(DequeAppend(stroke_history, stroke_str, MAX_HISTORY))
    /\ UNCHANGED <<is_recording_memory, _processing>>

\* on_stroked past the guard: the first matching command wins.
dispatch(stroke_str, ret) ==
    IF stroke_str \in DOMAIN REPEAT_STROKES
        \/ stroke_str \in {MEMORY_TOGGLE_STROKE, MEMORY_PASTE_STROKE,
                           MEMORY_RESET_STROKE}
    THEN /\ send_undo(stroke_str, ret)
         /\ NoMemoryFault
         /\ UNCHANGED <<stroke_history, is_recording_memory, history_file,
                        memory_file, history_write_failed>>
    ELSE IF stroke_str = UNDO_STROKE
    THEN undo_branch(ret)
    ELSE record_branch(stroke_str, ret)

\* Mutant of on_stroked: the check of _processing is missing.
on_stroked_Unguarded(stroke_str, ret) == dispatch(stroke_str, ret)

\* on_stroked(stroke), called by the host with `ret` the calls in progress
\* that resume when it returns.
on_stroked(stroke_str, ret) ==
    IF _processing
    THEN /\ stack' = ret
         /\ UNCHANGED <<stroke_history, is_recording_memory, _processing,
                        history_file, memory_file, faults>>
    ELSE dispatch(stroke_str, ret)

\* on_stroked, memory toggle, after send_undo().
memory_toggle(ret) ==
    /\ is_recording_memory' = ~is_recording_memory
    /\ _processing' = FALSE
    /\ stack' = ret
    /\ UNCHANGED <<stroke_history, history_file, memory_file, faults>>

\* Mutant of memory_paste: the load-and-clear variant, the file is emptied
\* once it has been read.
memory_paste_LoadAndClear(cmd, ret) ==
    /\ \/ /\ replay_strokes(cmd, FileLines(memory_file), ret)
          /\ memory_file' = <<>>
          /\ NoMemoryFault
       \/ /\ replay_strokes(cmd, <<>>, ret)
          /\ memory_file' = memory_file
          /\ memory_io_failed' = TRUE
    /\ UNCHANGED <<stroke_history, is_recording_memory, history_file,
                   history_write_failed>>

\* Mutant of memory_paste: pasting also turns recording off.
memory_paste_StopsRecording(cmd, ret) ==
    /\ \/ /\ replay_strokes(cmd, FileLines(memory_file), ret)
          /\ NoMemoryFault
       \/ /\ replay_strokes(cmd, <<>>, ret)
          /\ memory_io_failed' = TRUE
    /\ is_recording_memory' = FALSE
    /\ UNCHANGED <<stroke_history, history_file, memory_file,
                   history_write_failed>>

\* on_stroked, memory paste, after send_undo(): load_memory() returns the
\* file's strokes, or [] when reading raises, and replay_strokes takes them.
memory_paste(cmd, ret) ==
    /\ \/ /\ replay_strokes(cmd, FileLines(memory_file), ret)
          /\ NoMemoryFault
       \/ /\ replay_strokes(cmd, <<>>, ret)
          /\ memory_io_failed' = TRUE
    /\ UNCHANGED <<stroke_history, is_recording_memory, history_file,
                   memory_file, history_write_failed>>

\* on_stroked, memory reset, after send_undo().
memory_reset(ret) ==
    /\ clear_memory
    /\ is_recording_memory' = FALSE
    /\ _processing' = FALSE
    /\ stack' = ret
    /\ UNCHANGED <<stroke_history, history_file, history_write_failed>>

\* on_stroked after send_undo() has returned: what the command itself does.
after_send_undo(cmd, ret) ==
    IF cmd \in DOMAIN REPEAT_STROKES
    THEN /\ repeat_last_n(cmd, REPEAT_STROKES[cmd], ret)
         /\ UNCHANGED <<stroke_history, is_recording_memory, history_file,
                        memory_file, faults>>
    ELSE IF cmd = MEMORY_TOGGLE_STROKE
    THEN memory_toggle(ret)
    ELSE IF cmd = MEMORY_PASTE_STROKE
    THEN memory_paste(cmd, ret)
    ELSE memory_reset(ret)

\* The `finally` clause of send_undo / replay_strokes releases the guard; then
\* the caller goes on: the command after send_undo, the return after a replay.
finish(frame, ret) ==
    IF frame.stage = "undo"
    THEN after_send_undo(frame.cmd, ret)
    ELSE /\ _processing' = FALSE
         /\ stack' = ret
         /\ UNCHANGED <<stroke_history, is_recording_memory, history_file,
                        memory_file, faults>>

\* The try block ended normally.
try_completed(frame, ret) == finish(frame, ret)

\* Mutant of except_finally: no finally clause, so a replay that raises
\* leaves the guard set.
except_finally_NoRelease(frame, ret) ==
    IF frame.stage = "undo"
    THEN after_send_undo(frame.cmd, ret)
    ELSE /\ stack' = ret
         /\ UNCHANGED <<stroke_history, is_recording_memory, _processing,
                        history_file, memory_file, faults>>

\* The try block raised: `except Exception` logs, then `finally` runs.
except_finally(frame, ret) == finish(frame, ret)

\* The strokes written while recording, as the writer sees the memory cycle; a
\* cycle is followed no further once an access to the memory file has failed.
NextMirrored(s) ==
    IF memory_io_failed
    THEN None
    ELSE IF s = MEMORY_TOGGLE_STROKE
    THEN IF ~is_recording_memory /\ memory_file = <<>> THEN <<>> ELSE mirrored
    ELSE IF s = MEMORY_RESET_STROKE
    THEN None
    ELSE IF s \in TextStrokes /\ is_recording_memory /\ mirrored # None
    THEN Append(mirrored, s)
    ELSE mirrored

\* ---------------------------------------------------------------- actions
\* The host delivers a stroke of the writer to the 'stroked' hook.
HostStroke(s) ==
    /\ phase = "running"
    /\ stack = <<>>
    /\ (is_recording_memory /\ s \in TextStrokes) => Len(memory_file) < MaxMemory
    /\ last' = s
    /\ calls' = <<>>
    /\ h0' = stroke_history
    /\ m0' = memory_file
    /\ r0' = is_recording_memory
    /\ w0' = (history_write_failed /\ s \in TextStrokes \cup {UNDO_STROKE})
    /\ mirrored' = NextMirrored(s)
    /\ on_stroked(s, <<>>)
    /\ UNCHANGED <<phase, mark_position, since_mark>>

\* engine._machine_stroke_callback(stroke) accepts the next stroke of the batch.
\* A stroke is identified by its rtfcre text: Stroke.from_steno is applied only
\* to texts that on_stroked took from stroke.rtfcre, or to UNDO_STROKE.
Inject ==
    /\ stack # <<>>
    /\ Head(stack).pc = "inject"
    /\ Head(stack).batch # <<>>
    /\ calls' = Append(calls, [kind |-> Head(stack).stage,
                               stroke |-> Head(Head(stack).batch),
                               ok |-> TRUE])
    /\ stack' = <<[Head(stack) EXCEPT !.pc = "hook"]>> \o Tail(stack)
    /\ UNCHANGED <<phase, stroke_history, is_recording_memory, _processing,
                   mark_position, history_file, memory_file, faults,
                   last, h0, m0, r0, w0, ghosts>>

\* The callback raises: the except clause logs it, the rest of the batch is
\* dropped, and the finally clause runs.
InjectFails ==
    /\ stack # <<>>
    /\ Head(stack).pc = "inject"
    /\ Head(stack).batch # <<>>
    /\ calls' = Append(calls, [kind |-> Head(stack).stage,
                               stroke |-> Head(Head(stack).batch),
                               ok |-> FALSE])
    /\ except_finally(Head(stack), Tail(stack))
    /\ UNCHANGED <<phase, mark_position, last, h0, m0, r0, w0, ghosts>>

\* The host's 'stroked' hook calls on_stroked with the injected stroke.
HookStroked ==
    /\ stack # <<>>
    /\ Head(stack).pc = "hook"
    /\ on_stroked(Head(Head(stack).batch),
                  <<[Head(stack) EXCEPT !.pc = "inject",
                                        !.batch = Tail(Head(stack).batch)]>>
                      \o Tail(stack))
    /\ UNCHANGED <<phase, mark_position, obs, ghosts>>

\* The batch is exhausted: the finally clause runs and the command goes on.
BatchDone ==
    /\ stack # <<>>
    /\ Head(stack).pc = "inject"
    /\ Head(stack).batch = <<>>
    /\ try_completed(Head(stack), Tail(stack))
    /\ UNCHANGED <<phase, mark_position, obs, ghosts>>

\* load_history(): append the file's strokes to the deque; a read that raises
\* is caught before anything is appended.
load_history(file) ==
    \/ stroke_history' = DequeExtend(stroke_history, FileLines(file), MAX_HISTORY)
    \/ stroke_history' = stroke_history

\* start(): wipe repeat_strokes.txt, connect the hook, then load_history().
Start ==
    /\ phase = "new"
    /\ phase' = "running"
    /\ \/ /\ history_file' = <<>>
          /\ history_write_failed' = FALSE
       \/ /\ history_file' = history_file
          /\ history_write_failed' = TRUE
    /\ load_history(history_file')
    /\ UNCHANGED <<is_recording_memory, _processing, mark_position, memory_file,
                   stack, obs, ghosts, memory_io_failed>>

\* stop(): disconnect the hook and save_history().
Stop ==
    /\ phase = "running"
    /\ stack = <<>>
    /\ phase' = "stopped"
    /\ save_history(stroke_history)
    /\ last' = None
    /\ calls' = <<>>
    /\ h0' = <<>>
    /\ m0' = <<>>
    /\ r0' = FALSE
    /\ w0' = FALSE
    /\ UNCHANGED <<stroke_history, is_recording_memory, _processing,
                   mark_position, memory_file, stack, ghosts, memory_io_failed>>

\* __init__: the host builds a new instance; the files stay.
Construct ==
    /\ phase = "stopped"
    /\ phase' = "new"
    /\ stroke_history' = <<>>
    /\ is_recording_memory' = FALSE
    /\ _processing' = FALSE
    /\ mirrored' = None
    /\ UNCHANGED <<mark_position, history_file, memory_file, stack, obs,
                   since_mark, faults>>

Init ==
    /\ phase = "new"
    /\ stroke_history = <<>>
    /\ is_recording_memory = FALSE
    /\ _processing = FALSE
    /\ mark_position = NoMark
    /\ history_file \in SeqsUpTo(TextStrokes, MAX_HISTORY)
    /\ memory_file \in SeqsUpTo(TextStrokes, MaxMemory)
    /\ stack = <<>>
    /\ last = None
    /\ calls = <<>>
    /\ h0 = <<>>
    /\ m0 = <<>>
    /\ r0 = FALSE
    /\ w0 = FALSE
    /\ mirrored = None
    /\ since_mark = None
    /\ history_write_failed = FALSE
    /\ memory_io_failed = FALSE

Next ==
    \/ \E s \in Strokes : HostStroke(s)
    \/ Inject
    \/ InjectFails
    \/ HookStroked
    \/ BatchDone
    \/ Start
    \/ Stop
    \/ Construct

Spec == Init /\ [][Next]_vars

\* ------------------------------------------------ a debug log that fails
\* log(message) writes and flushes debug.log with no try around it, and
\* on_stroked calls it first thing, before the check of _processing and outside
\* every try block.  When the write raises (disk full, file closed), the
\* exception leaves on_stroked at that line: nothing of the stroke is handled.
HostStrokeLogFails(s) ==
    /\ phase = "running"
    /\ stack = <<>>
    /\ last' = s
    /\ calls' = <<>>
    /\ h0' = stroke_history
    /\ m0' = memory_file
    /\ r0' = is_recording_memory
    /\ w0' = FALSE
    /\ UNCHANGED <<prog, ghosts, faults>>

NextLog ==
    \/ Next
    \/ \E s \in Strokes : HostStrokeLogFails(s)

SpecLog == Init /\ [][NextLog]_vars

\* ------------------------------------------- __init__.py: mark / repeat-to-mark
MARK_STROKE == "#-FT"
REPEAT_TO_STROKE == "#-FD"

\* The strokes the host delivers to __init__.py's on_stroked.
StrokesMark == TextStrokes \cup RepeatInputs \cup {MARK_STROKE, REPEAT_TO_STROKE}

\* repeat_last_n(n): the body is `pass`.
repeat_last_n_mark(n) ==
    UNCHANGED <<stroke_history, mark_position, _processing>>

\* repeat_from_mark(): the body is `pass`.
repeat_from_mark ==
    UNCHANGED <<stroke_history, mark_position, _processing>>

\* Mutant of on_stroked_mark: the mark follows its stroke down when the
\* oldest entry is evicted.
on_stroked_mark_ShiftOnEvict(stroke_str) ==
    IF _processing
    THEN UNCHANGED <<stroke_history, mark_position, _processing>>
    ELSE IF stroke_str \in DOMAIN REPEAT_STROKES
    THEN repeat_last_n_mark(REPEAT_STROKES[stroke_str])
    ELSE IF stroke_str = MARK_STROKE
    THEN /\ mark_position' = Len(stroke_history)
         /\ UNCHANGED <<stroke_history, _processing>>
    ELSE IF stroke_str = REPEAT_TO_STROKE
    THEN repeat_from_mark
    ELSE /\ stroke_history' = DequeAppend(stroke_history, stroke_str, MAX_HISTORY)
         /\ mark_position' =
                IF /\ mark_position # NoMark
                   /\ Len(stroke_history) >= MAX_HISTORY
                   /\ mark_position > 0
                THEN mark_position - 1
                ELSE mark_position
         /\ UNCHANGED _processing

\* on_stroked(stroke) of __init__.py.
on_stroked_mark(stroke_str) ==
    IF _processing
    THEN UNCHANGED <<stroke_history, mark_position, _processing>>
    ELSE IF stroke_str \in DOMAIN REPEAT_STROKES
    THEN repeat_last_n_mark(REPEAT_STROKES[stroke_str])
    ELSE IF stroke_str = MARK_STROKE
    THEN /\ mark_position' = Len(stroke_history)
         /\ UNCHANGED <<stroke_history, _processing>>
    ELSE IF stroke_str = REPEAT_TO_STROKE
    THEN repeat_from_mark
    ELSE /\ stroke_history' = DequeAppend(stroke_history, stroke_str, MAX_HISTORY)
         /\ UNCHANGED <<mark_position, _processing>>

\* The strokes appended since the mark, while none of them has been evicted.
NextSinceMark(s) ==
    IF s = MARK_STROKE
    THEN <<>>
    ELSE IF s \in TextStrokes /\ since_mark # None
    THEN IF Len(stroke_history) >= MAX_HISTORY THEN None ELSE Append(since_mark, s)
    ELSE since_mark

\* The host delivers a stroke of the writer to the 'stroked' hook.  Nothing in
\* __init__.py calls the engine, so the call ends with no host call made.
HostStrokeMark(s) ==
    /\ phase = "running"
    /\ last' = s
    /\ h0' = stroke_history
    /\ since_mark' = NextSinceMark(s)
    /\ calls' = <<>>
    /\ on_stroked_mark(s)
    /\ UNCHANGED <<phase, is_recording_memory, history_file, memory_file, stack,
                   m0, r0, w0, mirrored, faults>>

\* start(): connect the hook; load_history() is `pass`.
StartMark ==
    /\ phase = "new"
    /\ phase' = "running"
    /\ UNCHANGED <<stroke_history, is_recording_memory, _processing, mark_position,
                   history_file, memory_file, stack, obs, ghosts, faults>>

\* stop(): disconnect the hook; save_history() is `pass`.
StopMark ==
    /\ phase = "running"
    /\ phase' = "stopped"
    /\ last' = None
    /\ h0' = <<>>
    /\ UNCHANGED <<stroke_history, is_recording_memory, _processing, mark_position,
                   history_file, memory_file, stack, calls, m0, r0, w0,
                   ghosts, faults>>

\* __init__: the host builds a new instance.
ConstructMark ==
    /\ phase = "stopped"
    /\ phase' = "new"
    /\ stroke_history' = <<>>
    /\ mark_position' = NoMark
    /\ _processing' = FALSE
    /\ since_mark' = None
    /\ UNCHANGED <<is_recording_memory, history_file, memory_file, stack, obs,
                   mirrored, faults>>

InitMark ==
    /\ phase = "new"
    /\ stroke_history = <<>>
    /\ is_recording_memory = FALSE
    /\ _processing = FALSE
    /\ mark_position = NoMark
    /\ history_file = <<>>
    /\ memory_file = <<>>
    /\ stack = <<>>
    /\ last = None
    /\ calls = <<>>
    /\ h0 = <<>>
    /\ m0 = <<>>
    /\ r0 = FALSE
    /\ w0 = FALSE
    /\ mirrored = None
    /\ since_mark = None
    /\ history_write_failed = FALSE
    /\ memory_io_failed = FALSE

NextMark ==
    \/ \E s \in StrokesMark : HostStrokeMark(s)
    \/ StartMark
    \/ StopMark
    \/ ConstructMark

SpecMark == InitMark /\ [][NextMark]_vars

\* ------------------------------- the history file, character by character
\* In the specifications above history_file is the list of the file's lines
\* with their terminators taken off.  Here it is the file's text, one
\* character per element, and a stroke is the text of its rtfcre: what
\* save_history writes and load_history reads back can then differ.
MaxStrokeLen == 2

\* Characters of an rtfcre text; str.strip() takes whitespace off.
StenoChars == {"K", "*"}
WhiteSpace == {" ", "\n"}

\* The rtfcre texts: not empty, no whitespace in them.
StrokeTexts == SeqsUpTo(StenoChars, MaxStrokeLen) \ {<<>>}

\* Mutant of WriteLines: f.write(stroke) without the line terminator.
RECURSIVE WriteLines_NoNewline(_)
WriteLines_NoNewline(h) ==
    IF h = <<>> THEN <<>> ELSE Head(h) \o WriteLines_NoNewline(Tail(h))

\* save_history: for stroke in stroke_history: f.write(f"{stroke}\n").
RECURSIVE WriteLines(_)
WriteLines(h) ==
    IF h = <<>> THEN <<>> ELSE Head(h) \o <<"\n">> \o WriteLines(Tail(h))

\* f.readlines(): each line with its terminator; the last may have none.
RECURSIVE ReadLines(_)
ReadLines(text) ==
    IF text = <<>>
    THEN <<>>
    ELSE LET nl == {i \in 1..Len(text) : text[i] = "\n"}
             end == IF nl = {}
                    THEN Len(text)
                    ELSE CHOOSE i \in nl : \A j \in nl : i <= j
         IN  <<SubSeq(text, 1, end)>> \o ReadLines(SubSeq(text, end + 1, Len(text)))

\* line.strip()
Strip(line) ==
    LET keep == {i \in 1..Len(line) : line[i] \notin WhiteSpace}
    IN  IF keep = {}
        THEN <<>>
        ELSE SubSeq(line,
                    CHOOSE i \in keep : \A j \in keep : i <= j,
                    CHOOSE i \in keep : \A j \in keep : i >= j)

\* load_history: the stripped lines that are not empty, in file order.
LoadLines(text) ==
    LET lines == ReadLines(text)
        stripped == [i \in 1..Len(lines) |-> Strip(lines[i])]
    IN  SelectSeq(stripped, LAMBDA stroke : stroke # <<>>)

\* An engine saves its history: save_history(), the write succeeding.
SaveText ==
    /\ phase = "filled"
    /\ phase' = "saved"
    /\ history_file' = WriteLines(stroke_history)
    /\ h0' = stroke_history
    /\ UNCHANGED <<stroke_history, is_recording_memory, _processing,
                   mark_position, memory_file, stack, last, calls, m0, r0, w0,
                   ghosts, faults>>

\* __init__: a new engine, its history empty.
ConstructEmpty ==
    /\ phase = "saved"
    /\ phase' = "empty"
    /\ stroke_history' = <<>>
    /\ UNCHANGED <<is_recording_memory, _processing, mark_position,
                   history_file, memory_file, stack, obs, ghosts, faults>>

\* The new engine loads the file: load_history(), the read succeeding.
LoadText ==
    /\ phase = "empty"
    /\ phase' = "loaded"
    /\ stroke_history' =
           DequeExtend(stroke_history, LoadLines(history_file), MAX_HISTORY)
    /\ UNCHANGED <<is_recording_memory, _processing, mark_position,
                   history_file, memory_file, stack, obs, ghosts, faults>>

InitRoundTrip ==
    /\ phase = "filled"
    /\ stroke_history \in SeqsUpTo(StrokeTexts, MAX_HISTORY)
    /\ is_recording_memory = FALSE
    /\ _processing = FALSE
    /\ mark_position = NoMark
    /\ history_file = <<>>
    /\ memory_file = <<>>
    /\ stack = <<>>
    /\ last = None
    /\ calls = <<>>
    /\ h0 = <<>>
    /\ m0 = <<>>
    /\ r0 = FALSE
    /\ w0 = FALSE
    /\ mirrored = None
    /\ since_mark = None
    /\ history_write_failed = FALSE
    /\ memory_io_failed = FALSE

NextRoundTrip ==
    \/ SaveText
    \/ ConstructEmpty
    \/ LoadText

SpecRoundTrip == InitRoundTrip /\ [][NextRoundTrip]_vars

\* ------------------------------------------------------------ observations
\* An outermost on_stroked call has returned and nothing has happened since.
Done == stack = <<>> /\ last # None

UndoCall(ok) == [kind |-> "undo", stroke |-> UNDO_STROKE, ok |-> ok]
ReplayCall(s, ok) == [kind |-> "replay", stroke |-> s, ok |-> ok]

\* Every call of _machine_stroke_callback so far was accepted by the host.
AllOk == \A i \in 1..Len(calls) : calls[i].ok

\* The host accepted every stroke that replay_strokes has injected so far.
ReplayOk == \A i \in 1..Len(calls) : calls[i].kind = "replay" => calls[i].ok

\* The strokes replay_strokes has handed to the host, in order.
Emitted ==
    LET r == SelectSeq(calls, LAMBDA c : c.kind = "replay")
    IN  [i \in 1..Len(r) |-> r[i].stroke]

RepeatCount == IF last \in DOMAIN REPEAT_STROKES THEN REPEAT_STROKES[last] ELSE 0

\* ------------------------------------------------------------------ claims
\* C1: the history never holds more than MAX_HISTORY entries, and a non-command
\* stroke leaves it holding the most recent MAX_HISTORY of the strokes that
\* were in it followed by the new one, in arrival order: at capacity the
\* oldest entry is gone and the others have moved up.
C1_HistoryBounded ==
    /\ Len(stroke_history) <= MAX_HISTORY
    /\ (Done /\ last \in TextStrokes) =>
           LET all == h0 \o <<last>>
               keep == IF Len(all) > MAX_HISTORY THEN MAX_HISTORY ELSE Len(all)
           IN  stroke_history = [i \in 1..keep |-> all[Len(all) - keep + i]]

\* A full history of two different strokes has taken one more stroke.
C1_Witness ==
    /\ Done
    /\ last \in TextStrokes
    /\ Len(h0) = MAX_HISTORY
    /\ h0[1] # h0[2]
    /\ Len(stroke_history) = MAX_HISTORY
    /\ stroke_history[MAX_HISTORY] = last

\* C2: repeat-N on a history of at least N entries, the host accepting every
\* replayed stroke: one undo call, then exactly the last N entries in their
\* original order, and no other call.
C2_RepeatN ==
    (Done /\ RepeatCount >= 1 /\ RepeatCount <= Len(h0) /\ ReplayOk) =>
        /\ Len(calls) = RepeatCount + 1
        /\ calls[1].kind = "undo"
        /\ calls[1].stroke = UNDO_STROKE
        /\ \A i \in 1..RepeatCount :
               calls[i + 1] = ReplayCall(h0[Len(h0) - RepeatCount + i], TRUE)

\* Repeat-2 has replayed two different strokes.
C2_Witness ==
    /\ Done
    /\ RepeatCount = 2
    /\ Len(h0) >= 2
    /\ h0[Len(h0) - 1] # h0[Len(h0)]
    /\ AllOk
    /\ Len(calls) = 3

\* C3: repeat-N with N above the history length makes the one undo call for
\* the command stroke (whether or not the host accepts it), replays nothing
\* and leaves the history as it was; the call returns.
C3_RepeatTooMany ==
    (RepeatCount > Len(h0)) =>
        /\ Emitted = <<>>
        /\ stroke_history = h0
        /\ Done => /\ Len(calls) = 1
                   /\ calls[1].kind = "undo"
                   /\ calls[1].stroke = UNDO_STROKE

\* Repeat-15 has been handled on a non-empty history.
C3_Witness ==
    /\ Done
    /\ RepeatCount = 15
    /\ h0 # <<>>
    /\ Len(calls) = 1
    /\ stroke_history = h0

\* C4: the undo stroke, delivered with the guard clear, drops exactly the
\* newest entry of a non-empty history and keeps the others; on an empty
\* history it changes nothing; either way the host is not called.
C4_Undo ==
    [][(stack = <<>> /\ phase = "running" /\ last' = UNDO_STROKE) =>
          /\ stack' = <<>>
          /\ calls' = <<>>
          /\ IF stroke_history # <<>>
             THEN /\ Len(stroke_history') = Len(stroke_history) - 1
                  /\ \A i \in 1..Len(stroke_history') :
                         stroke_history'[i] = stroke_history[i]
             ELSE /\ stroke_history' = <<>>
                  /\ history_file' = history_file
          /\ UNCHANGED <<is_recording_memory, memory_file, _processing>>]_vars

\* The undo stroke has taken the newer of two entries.
C4_Witness ==
    /\ Done
    /\ last = UNDO_STROKE
    /\ Len(h0) = 2
    /\ stroke_history = <<h0[1]>>
    /\ calls = <<>>

\* C5: every call of on_stroked that the host makes for an injected stroke
\* finds _processing set and returns at once: the history, the recording
\* flag, both files and the list of host calls stay as they are, and no send_undo
\* or replay is started, whether the stroke is the undo stroke or a replayed one.
C5_Reentrancy ==
    [][(stack # <<>> /\ Head(stack).pc = "hook") =>
          /\ _processing
          /\ UNCHANGED <<stroke_history, is_recording_memory, memory_file,
                         history_file, calls, _processing>>
          /\ Len(stack') = Len(stack)
          /\ Head(stack').pc = "inject"
          /\ Head(stack').stage = Head(stack).stage]_vars

\* The undo stroke and a replayed stroke have come back through the hook, and
\* the second replayed stroke is at the hook.
C5_Witness ==
    /\ stack # <<>>
    /\ Head(stack).pc = "hook"
    /\ Head(stack).stage = "replay"
    /\ Len(calls) = 3
    /\ stroke_history = h0
    /\ Len(h0) = 2
    /\ _processing

\* C6: the guard is clear whenever no on_stroked call is executing; a replay
\* call that raises is the last call of its batch; and a repeat or paste in
\* which an injection raised leaves the history and the memory file as the
\* same command leaves them when nothing raises, that is, as they were.
C6_GuardReleased ==
    /\ stack = <<>> => ~_processing
    /\ \A i \in 1..Len(calls) :
           (calls[i].kind = "replay" /\ ~calls[i].ok) => i = Len(calls)
    /\ (Done /\ ~AllOk /\ (RepeatCount >= 1 \/ last = MEMORY_PASTE_STROKE)) =>
           /\ stroke_history = h0
           /\ memory_file = m0

\* Repeat-2: the first replayed stroke raised, the second was never injected.
C6_Witness ==
    /\ Done
    /\ RepeatCount = 2
    /\ Len(h0) = 2
    /\ Len(calls) = 2
    /\ calls[1].ok
    /\ ~calls[2].ok
    /\ ~_processing

\* C9: while the extension runs and no on_stroked call is executing, the
\* history file holds the in-memory history, entry for entry, unless the
\* latest write of the file failed.
C9_LiveSave ==
    (phase = "running" /\ stack = <<>> /\ ~history_write_failed) =>
        FileLines(history_file) = stroke_history

\* The undo stroke has popped an entry of a history that had lost one to
\* eviction, and the file holds what is left.
C9_Witness ==
    /\ Done
    /\ last = UNDO_STROKE
    /\ Len(h0) = MAX_HISTORY
    /\ ~history_write_failed
    /\ history_file = stroke_history
    /\ Len(stroke_history) = MAX_HISTORY - 1

\* C7 (as amended): the memory cycle with the three memory commands.  Through
\* a cycle that began with the toggle on an empty memory file, the file holds
\* the strokes handled while recording, in order; a non-command stroke handled
\* while recording is appended to the file and to the history; the toggle
\* flips the recording flag, replays nothing and keeps the file, also when it
\* stops the recording; paste replays the mirrored strokes in order and keeps
\* the file and the flag; reset empties the file and turns recording off.
C7_MemoryCycle ==
    /\ (mirrored # None /\ ~memory_io_failed) => memory_file = mirrored
    /\ (Done /\ last \in TextStrokes /\ r0 /\ ~memory_io_failed) =>
           /\ memory_file = Append(m0, last)
           /\ stroke_history # <<>>
           /\ stroke_history[Len(stroke_history)] = last
    /\ (Done /\ last = MEMORY_TOGGLE_STROKE) =>
           /\ is_recording_memory = ~r0
           /\ Emitted = <<>>
           /\ memory_file = m0
    /\ (Done /\ last = MEMORY_PASTE_STROKE) =>
           /\ is_recording_memory = r0
           /\ memory_file = m0
           /\ (mirrored # None /\ AllOk /\ ~memory_io_failed) => Emitted = mirrored
    /\ (Done /\ last = MEMORY_RESET_STROKE /\ ~memory_io_failed) =>
           /\ memory_file = <<>>
           /\ ~is_recording_memory

\* Two different strokes were recorded, recording was stopped by the toggle,
\* and paste has replayed the two strokes.
C7_Witness ==
    /\ Done
    /\ last = MEMORY_PASTE_STROKE
    /\ mirrored # None
    /\ Len(mirrored) = 2
    /\ mirrored[1] # mirrored[2]
    /\ Emitted = mirrored
    /\ memory_file = mirrored
    /\ ~is_recording_memory

\* C7 as stated: the command that began the recording, invoked again, replays
\* the mirrored strokes and leaves the memory file empty and recording off.
C7_Original ==
    (Done /\ last = MEMORY_TOGGLE_STROKE /\ r0 /\ mirrored # None
          /\ mirrored # <<>> /\ AllOk /\ ~memory_io_failed) =>
        /\ Emitted = mirrored
        /\ memory_file = <<>>
        /\ ~is_recording_memory

\* C8: the mark set at length L, K strokes appended with no eviction, then
\* repeat-to-mark: exactly those K strokes are replayed, in order.
C8_RepeatToMark ==
    (Done /\ last = REPEAT_TO_STROKE /\ since_mark # None) => Emitted = since_mark

\* C10: start() hydrates the history from what the history file held just
\* before start() (its last MAX_HISTORY strokes), when the wipe succeeds.
C10_ReadThenClear ==
    [][(phase = "new" /\ phase' = "running" /\ ~history_write_failed') =>
          LET f == FileLines(history_file)
              keep == IF Len(f) > MAX_HISTORY THEN MAX_HISTORY ELSE Len(f)
          IN  stroke_history' = [i \in 1..keep |-> f[Len(f) - keep + i]]]_vars

\* C11: a stroke handled while the debug log cannot be written is handled as
\* it is when the log works: a non-command stroke is the newest entry of the
\* history, and of the history file when that write succeeds; the undo stroke
\* takes the newest entry; every other command makes its undo call.
C11_LogFailureHarmless ==
    /\ (Done /\ last \in TextStrokes) =>
           /\ stroke_history # <<>>
           /\ stroke_history[Len(stroke_history)] = last
           /\ ~history_write_failed => FileLines(history_file) = stroke_history
    /\ (Done /\ last = UNDO_STROKE /\ h0 # <<>>) =>
           Len(stroke_history) = Len(h0) - 1
    /\ (Done /\ last \in Strokes \ (TextStrokes \cup {UNDO_STROKE})) =>
           /\ calls # <<>>
           /\ calls[1].kind = "undo"

\* C12: a stroke whose write of the history file fails is still handled: the
\* call returns, a recorded stroke is the newest entry of the history and an
\* undone one is gone from it; and when the write of the next such stroke
\* succeeds, the file holds the whole history, the entries whose write had
\* failed included.
C12_SelfHealing ==
    /\ last \in TextStrokes \cup {UNDO_STROKE} => stack = <<>>
    /\ (Done /\ history_write_failed /\ last \in TextStrokes) =>
           /\ stroke_history # <<>>
           /\ stroke_history[Len(stroke_history)] = last
    /\ (Done /\ history_write_failed /\ last = UNDO_STROKE /\ h0 # <<>>) =>
           stroke_history = DequePop(h0)
    /\ (Done /\ w0 /\ ~history_write_failed) =>
           /\ FileLines(history_file) = stroke_history
           /\ last \in TextStrokes =>
                  stroke_history = DequeAppend(h0, last, MAX_HISTORY)

\* The write for one stroke had failed and left the file behind the history;
\* the next stroke was written, and the file holds both.
C12_Witness ==
    /\ Done
    /\ w0
    /\ ~history_write_failed
    /\ last \in TextStrokes
    /\ Len(h0) = 1
    /\ h0[1] # last
    /\ stroke_history = h0 \o <<last>>
    /\ history_file = stroke_history

\* C13: a history saved by save_history and loaded by load_history into an
\* engine whose history is empty comes back as the same strokes in the same
\* order, whatever its length from 0 to MAX_HISTORY.
C13_RoundTrip ==
    phase = "loaded" => stroke_history = h0

\* A full history of different strokes, one of them a prefix of the other,
\* has been saved and loaded.
C13_Witness ==
    /\ phase = "loaded"
    /\ Len(h0) = MAX_HISTORY
    /\ h0[1] = <<"K">>
    /\ h0[MAX_HISTORY] = <<"K", "*">>
    /\ stroke_history = h0

\* C14: a non-command stroke delivered with the guard clear is added at the
\* end of the memory file when recording was on (and the file could be
\* written), leaves the file alone when recording was off, and is appended to
\* the history either way; a command never adds to the memory file, nor do the
\* strokes it injects: the file stays as it was, or is emptied by reset.
C14_MirrorIffRecording ==
    /\ (Done /\ last \in TextStrokes /\ r0 /\ ~memory_io_failed) =>
           memory_file = Append(m0, last)
    /\ (last \in TextStrokes /\ ~r0) => memory_file = m0
    /\ (Done /\ last \in TextStrokes) =>
           stroke_history = DequeAppend(h0, last, MAX_HISTORY)
    /\ (last \in Strokes \ (TextStrokes \cup {MEMORY_RESET_STROKE})) =>
           memory_file = m0
    /\ last = MEMORY_RESET_STROKE => memory_file \in {m0, <<>>}

\* Recording on, the memory file not empty and the history full: a stroke
\* has gone to the end of both, and the history has lost its oldest entry.
C14_Witness ==
    /\ Done
    /\ last \in TextStrokes
    /\ r0
    /\ m0 # <<>>
    /\ memory_file = Append(m0, last)
    /\ Len(h0) = MAX_HISTORY
    /\ stroke_history = Tail(h0) \o <<last>>

\* C15 (as amended): the recording flag is changed by the memory toggle and by
\* the memory reset only.  Repeat-N, memory paste, undo and a non-command
\* stroke leave it as it was, at every step of their handling; the reset
\* keeps it until the memory file has been cleared and then leaves it off.
C15_FlagWriters ==
    /\ (last \in Strokes \ {MEMORY_TOGGLE_STROKE, MEMORY_RESET_STROKE}) =>
           is_recording_memory = r0
    /\ (last = MEMORY_RESET_STROKE /\ ~Done) => is_recording_memory = r0
    /\ (last = MEMORY_RESET_STROKE /\ Done) => ~is_recording_memory
    /\ (last = MEMORY_TOGGLE_STROKE /\ Done) => is_recording_memory = ~r0

\* Paste has replayed a stroke while recording was on, and recording is on.
C15_Witness ==
    /\ Done
    /\ last = MEMORY_PASTE_STROKE
    /\ r0
    /\ is_recording_memory
    /\ Emitted # <<>>

\* C15 as stated: only the memory toggle changes the recording flag; every
\* other stroke leaves it at the value it had before.
C15_Original ==
    (Done /\ last # MEMORY_TOGGLE_STROKE) => is_recording_memory = r0

\* C16: a memory command (toggle, paste, reset) calls the host with the undo
\* stroke first and once: until that call is made the recording flag and the
\* memory file are as they were and nothing has been replayed, every replayed
\* stroke comes after it, and the finished command has made one undo call.
C16_UndoFirst ==
    LET MemoryCommands == {MEMORY_TOGGLE_STROKE, MEMORY_PASTE_STROKE,
                           MEMORY_RESET_STROKE}
    IN  last \in MemoryCommands =>
            /\ calls = <<>> => /\ ~Done
                               /\ is_recording_memory = r0
                               /\ memory_file = m0
            /\ calls # <<>> => /\ calls[1].kind = "undo"
                               /\ calls[1].stroke = UNDO_STROKE
            /\ \A i \in 2..Len(calls) : calls[i].kind = "replay"

\* Paste: the undo call, then the two strokes of the memory file.
C16_Witness ==
    /\ Done
    /\ last = MEMORY_PASTE_STROKE
    /\ Len(calls) = 3
    /\ calls[1] = UndoCall(TRUE)
    /\ calls[2].kind = "replay"
    /\ calls[3].kind = "replay"
    /\ calls[2].stroke # calls[3].stroke

\* C17: the history holds non-command strokes only, and while a command other
\* than undo is handled, and when it has finished, the history is what it was
\* when the command arrived: the command stroke is not appended, the injected
\* undo stroke pops nothing, the replayed strokes are not appended again.
C17_CommandsKeepHistory ==
    /\ \A i \in 1..Len(stroke_history) : stroke_history[i] \in TextStrokes
    /\ (last \in Strokes \ (TextStrokes \cup {UNDO_STROKE})) =>
           stroke_history = h0

\* Paste on a full history, recording on: a stroke of the memory file was
\* replayed and the history is as it was.
C17_Witness ==
    /\ Done
    /\ last = MEMORY_PASTE_STROKE
    /\ r0
    /\ Len(h0) = MAX_HISTORY
    /\ Len(calls) >= 2
    /\ AllOk
    /\ stroke_history = h0

\* C18: memory paste keeps the memory file and the recording flag as they
\* were, at every step and also when recording is on; when the file could be
\* read and the host accepted every call, the strokes replayed are the strokes
\* of the file, which is still there for the next paste to replay again.
C18_PasteKeepsMemory ==
    last = MEMORY_PASTE_STROKE =>
        /\ memory_file = m0
        /\ is_recording_memory = r0
        /\ (Done /\ AllOk /\ ~memory_io_failed) =>
               /\ Emitted = FileLines(m0)
               /\ Emitted = FileLines(memory_file)

\* Recording on: paste has replayed the two strokes of the memory file and
\* the file still holds them.
C18_Witness ==
    /\ Done
    /\ last = MEMORY_PASTE_STROKE
    /\ r0
    /\ is_recording_memory
    /\ Len(m0) = MaxMemory
    /\ Emitted = m0
    /\ memory_file = m0

\* C20: the undo stroke leaves the memory file as it was, also while recording
\* is on: the stroke it takes out of the history stays in the file, which
\* through a recording cycle still holds every stroke handled while
\* recording, the undone ones among them, for paste to replay.
C20_UndoKeepsMemory ==
    /\ last = UNDO_STROKE =>
           /\ memory_file = m0
           /\ (h0 # <<>> /\ r0 /\ mirrored # None) =>
                  /\ stroke_history = DequePop(h0)
                  /\ memory_file = mirrored
    /\ (Done /\ last = MEMORY_PASTE_STROKE /\ mirrored # None /\ AllOk
             /\ ~memory_io_failed) =>
           /\ Emitted = mirrored
           /\ stroke_history = h0

\* Recording began on an empty file and an empty history; one stroke was
\* recorded and then undone: the history is empty, the file holds the stroke.
C20_Witness ==
    /\ Done
    /\ last = UNDO_STROKE
    /\ r0
    /\ mirrored # None
    /\ Len(mirrored) = 1
    /\ h0 = mirrored
    /\ stroke_history = <<>>
    /\ memory_file = mirrored

\* C19: of the strokes delivered to a running instance, the mark stroke sets
\* mark_position to the length the history has at that moment and keeps the
\* history; every other stroke (a non-command stroke, evicting or not,
\* repeat-N, repeat-to-mark) leaves mark_position as it is; and a mark is
\* never above the length of the history, so reading from it cannot fail.
C19_MarkFixed ==
    [][(phase = "running" /\ phase' = "running") =>
          /\ IF last' = MARK_STROKE
             THEN /\ mark_position' = Len(stroke_history)
                  /\ stroke_history' = stroke_history
             ELSE mark_position' = mark_position
          /\ mark_position' # NoMark => mark_position' <= Len(stroke_history')]_vars

\* The mark was set on a full history and a stroke has since evicted the
\* oldest entry: the mark still equals the length, as if nothing had followed.
C19_Witness ==
    /\ Done
    /\ last \in TextStrokes
    /\ mark_position = MAX_HISTORY
    /\ since_mark = None
    /\ Len(stroke_history) = MAX_HISTORY

====
